---- MODULE Spec2Model ----
\* A model of the okta-secure-ai-agent example: the todo0 MCP server (access
\* gate, session registry, tools) and the agent0 two-hop token exchange.
EXTENDS Integers, Sequences, FiniteSets, TLC

\* ------------------------------------------------------------------ bounds

MaxSessions == 2        \* SSE sessions ever opened (registry specification)
MaxInFlight == 2        \* requests between the gate and their handler
OpsSessions == 1        \* the same two bounds for the tool specification
OpsInFlight == 1
MaxTodos == 2           \* rows the todo table ever receives
MaxCalls == 2           \* handleCrossAppAccess calls, possibly concurrent
MaxFracDigits == 6      \* base-36 fraction digits of a Math.random() value
MaxToggleCalls == 2     \* toggleTodo calls between their read and their write
MaxToggles == 3         \* toggleTodo calls that succeed on one todo

\* ------------------------------------------------- access gate (todo0 MCP)

Subjects == {"u1", "u2"}
Audiences == {"mcp://todo0", "api://todo0"}
Issuers == {"mcp-as", "org-as"}
MCP_OKTA_ISSUER == "mcp-as"
MCP_EXPECTED_AUDIENCE == "mcp://todo0"
Scopes == {"mcp:connect", "mcp:tools:read", "mcp:tools:manage"}
NoScp == {"<undefined>"}                 \* a token without an scp claim
NoClaims == [sub |-> "", scp |-> NoScp]  \* the verifier threw

\* What follows the scheme word of an Authorization header: nothing, a string
\* that is no JWT, or a JWT as the verifier sees it (whether its signature
\* checks against the issuer's key set, and the claims it carries).
GoodToken(sub, scp) ==
  [form |-> "jwt", sig |-> TRUE, iss |-> MCP_OKTA_ISSUER,
   aud |-> MCP_EXPECTED_AUDIENCE, expired |-> FALSE, sub |-> sub, scp |-> scp]
NotJwt(f) == [GoodToken("u1", NoScp) EXCEPT !.form = f, !.sig = FALSE]
ScopeClaims ==
  {NoScp, {"mcp:tools:read", "mcp:tools:manage"}, {"mcp:connect"}, Scopes}
\* Good tokens of every subject and scope claim, and tokens with one defect
\* (bad signature, other issuer, other audience, expired) for every scope claim.
Jwts ==
  LET good == {GoodToken(u, sc) : u \in Subjects, sc \in ScopeClaims}
      base == {GoodToken("u2", sc) : sc \in ScopeClaims} IN
  good \cup {[t EXCEPT !.sig = FALSE] : t \in base}
       \cup {[t EXCEPT !.iss = "org-as"] : t \in base}
       \cup {[t EXCEPT !.aud = "api://todo0"] : t \in base}
       \cup {[t EXCEPT !.expired = TRUE] : t \in base}
Credentials == Jwts \cup {NotJwt("empty"), NotJwt("garbage")}

\* The Authorization header: absent (scheme ""), or a scheme word and
\* credentials.
NoHeader == [scheme |-> "", cred |-> NotJwt("empty")]
AllHeaders ==
  {NoHeader} \cup [scheme : {"Bearer"}, cred : Credentials]
             \cup [scheme : {"bearer", "Basic"}, cred : {GoodToken("u1", Scopes)}]

\* The headers of the registry specification: callers holding a good token of
\* either subject, an expired one, one without mcp:connect, or none.
RegistryHeaders ==
  {NoHeader}
    \cup {[scheme |-> "Bearer", cred |-> GoodToken(u, Scopes)] : u \in Subjects}
    \cup {[scheme |-> "Bearer", cred |-> GoodToken("u1", {"mcp:tools:read"})],
          [scheme |-> "Bearer",
           cred |-> [GoodToken("u2", Scopes) EXCEPT !.expired = TRUE]]}

\* The headers of the tool specification: callers holding a good token with or
\* without mcp:tools:manage, or none.
OpsHeaders ==
  {NoHeader}
    \cup {[scheme |-> "Bearer", cred |-> GoodToken(u, sc)] :
            u \in Subjects, sc \in {{"mcp:connect", "mcp:tools:read"}, Scopes}}

\* authHeader.match(/^Bearer (.+)$/): the scheme word exactly, then one space
\* and at least one character.
BearerMatch(h) == h.scheme = "Bearer" /\ h.cred.form # "empty"

\* Mutant: a verifier that does not compare the audience.
VerifyAccessToken_NoAudience(tok, expectedAudience) ==
  IF tok.form # "jwt" \/ ~tok.sig \/ tok.iss # MCP_OKTA_ISSUER \/ tok.expired
  THEN NoClaims
  ELSE [sub |-> tok.sub, scp |-> tok.scp]

\* oktaJwtVerifier.verifyAccessToken(token, expectedAudience): the claims, or
\* NoClaims where the verifier throws.
VerifyAccessToken(tok, expectedAudience) ==
  IF tok.form # "jwt" \/ ~tok.sig \/ tok.iss # MCP_OKTA_ISSUER \/ tok.expired
     \/ tok.aud # expectedAudience
  THEN NoClaims
  ELSE [sub |-> tok.sub, scp |-> tok.scp]

verifyScopesClaim(claims, expectedScopes) ==
  IF claims.scp # NoScp
  THEN \A s \in expectedScopes : s \in claims.scp
  ELSE FALSE

\* Mutant: the catch block of the gate calls next() instead of answering 401.
requireMcpAuth_NextOnError(h) ==
  IF ~BearerMatch(h)
  THEN [status |-> 401, error |-> "Unauthorized", claims |-> NoClaims]
  ELSE LET c == VerifyAccessToken(h.cred, MCP_EXPECTED_AUDIENCE) IN
       IF c = NoClaims
       THEN [status |-> 0, error |-> "", claims |-> NoClaims]
       ELSE IF ~verifyScopesClaim(c, {"mcp:connect"})
            THEN [status |-> 403, error |-> "Forbidden", claims |-> NoClaims]
            ELSE [status |-> 0, error |-> "", claims |-> c]

\* Mutant: the gate reads the scopes of the decoded token before verifying it.
requireMcpAuth_ScopesFirst(h) ==
  IF ~BearerMatch(h)
  THEN [status |-> 401, error |-> "Unauthorized", claims |-> NoClaims]
  ELSE IF h.cred.form = "jwt" /\ ~verifyScopesClaim(h.cred, {"mcp:connect"})
       THEN [status |-> 403, error |-> "Forbidden", claims |-> NoClaims]
       ELSE LET c == VerifyAccessToken(h.cred, MCP_EXPECTED_AUDIENCE) IN
            IF c = NoClaims
            THEN [status |-> 401, error |-> "Unauthorized", claims |-> NoClaims]
            ELSE [status |-> 0, error |-> "", claims |-> c]

\* requireMcpAuth: the status it answers with (0: next() was called) and the
\* claims it attaches to the request as req.mcpUser.
requireMcpAuth(h) ==
  IF ~BearerMatch(h)
  THEN [status |-> 401, error |-> "Unauthorized", claims |-> NoClaims]
  ELSE LET c == VerifyAccessToken(h.cred, MCP_EXPECTED_AUDIENCE) IN
       IF c = NoClaims
       THEN [status |-> 401, error |-> "Unauthorized", claims |-> NoClaims]
       ELSE IF ~verifyScopesClaim(c, {"mcp:connect"})
            THEN [status |-> 403, error |-> "Forbidden", claims |-> NoClaims]
            ELSE [status |-> 0, error |-> "", claims |-> c]

\* What is wrong with a header, read off the header itself: no Bearer scheme
\* word, nothing after it, not a JWT, a signature that does not verify, another
\* issuer, another audience, expired, mcp:connect not among the scopes.
HeaderDefects(h) ==
  {d \in {"scheme"} : h.scheme # "Bearer"}
    \cup {d \in {"empty"} : h.cred.form = "empty"}
    \cup {d \in {"malformed"} : h.cred.form = "garbage"}
    \cup {d \in {"sig"} : h.cred.form = "jwt" /\ ~h.cred.sig}
    \cup {d \in {"iss"} : h.cred.form = "jwt" /\ h.cred.iss # MCP_OKTA_ISSUER}
    \cup {d \in {"aud"} : h.cred.form = "jwt" /\ h.cred.aud # MCP_EXPECTED_AUDIENCE}
    \cup {d \in {"expired"} : h.cred.form = "jwt" /\ h.cred.expired}
    \cup {d \in {"scp"} : h.cred.form = "jwt" /\ "mcp:connect" \notin h.cred.scp}

\* ---------------------------------------------- session registry and tools

VARIABLES
  transports,   \* bootstrap's Map sessionId -> SSEServerTransport
  sessionAuth,  \* bootstrap's Map sessionId -> McpAuthClaims
  conn,         \* per session: its SSE response is "open", was "closed" after
                \* the session was registered, or was "dead" before that
  started,      \* sessions whose server.connect(transport) succeeded
  nextSid,      \* the next fresh transport.sessionId
  pending,      \* requests that passed the gate, one per slot
  todos,        \* the todo table: id -> completed
  nextTodoId,   \* the table's autoincrement
  ev            \* what the last step answered or did

serverVars ==
  <<transports, sessionAuth, conn, started, nextSid, pending, todos, nextTodoId, ev>>

\* agent0's token exchange (TokenExchangeHandler)
VARIABLES
  privateKey,            \* this.privateKey: "null", a usable key, or file
                         \* content that jwt.sign cannot use
  resourceTokenEndpoint, \* config.resourceTokenEndpoint ("" when not set)
  calls,                 \* the handleCrossAppAccess calls, each at its await
  mintCount              \* client assertions signed so far

exchangeVars == <<privateKey, resourceTokenEndpoint, calls, mintCount>>

\* agent0's app server: browser sessions and the per-subject agents
VARIABLES
  now,             \* the time, in units of a token lifetime step
  session,         \* per subject: req.session.idToken of its browser session
                   \* (0: no session, or one that holds no ID token)
  issued,          \* ID tokens issued so far (they are numbered)
  subjectToAgent,  \* agent.ts's Map subject -> Agent
  agev,            \* what the last agent step did
  exited           \* the processes that have exited

agentVars == <<now, session, issued, subjectToAgent, agev, exited>>
\* agent0's login flow (OktaAuthHelper)
VARIABLES
  pkce,       \* per browser session: req.session.pkce (0: none; else the
              \* number of the /login that stored verifier and state)
  callbacks,  \* per browser session: a /callback request at its await
  logins,     \* /login requests that stored PKCE parameters so far
  authev      \* what the last step of the login flow answered

loginVars == <<pkce, callbacks, logins, authev>>

\* todo0's TodoService.toggleTodo, call by call
VARIABLES
  toggling,   \* toggleTodo calls between their findUnique and their update
  toggled,    \* per todo id: toggleTodo calls that returned the updated row
  togev       \* what the last step of a toggleTodo call returned

toggleVars == <<toggling, toggled, togev>>

\* The tenant scripts (bootstrap-okta-tenant.ts, rollback-okta-config.ts)
VARIABLES
  rollbackState,  \* bootstrap's rollbackState, as .okta-bootstrap-state.json
                  \* holds it after each updateRollbackState
  okta,           \* the resources of this run that exist in the Okta tenant
  boot,           \* bootstrap: its position, status and owner setup method
  roll,           \* rollback: its position, the calls it made, in order
  merge           \* an updateRollbackState application: inputs and results

scriptVars == <<rollbackState, okta, boot, roll, merge>>
nonServerVars ==
  <<exchangeVars, agentVars, scriptVars, loginVars, toggleVars>>

Tools == {"create-todo", "get-todos", "toggle-todo", "delete-todo"}
MutatingTools == {"create-todo", "toggle-todo", "delete-todo"}
Ping == [tool |-> "ping", id |-> 0]
RegistryBodies == {Ping}
ToolBodies ==
  {Ping} \cup {[tool |-> t, id |-> 0] : t \in {"create-todo", "get-todos"}}
         \cup [tool : {"toggle-todo", "delete-todo"}, id : 1..MaxTodos]

NoReq ==
  [op |-> "", claims |-> NoClaims, sid |-> 0, body |-> Ping, stage |-> "",
   open |-> FALSE, defects |-> {}, sscp |-> NoScp]
NoEv ==
  [op |-> "", status |-> 0, error |-> "", sid |-> 0, sub |-> "", scp |-> NoScp,
   routed |-> 0, tool |-> "", changed |-> FALSE, stage |-> "",
   defects |-> {}, sscp |-> NoScp, dbOk |-> TRUE, missing |-> FALSE]

Slots == 1..(IF MaxInFlight > OpsInFlight THEN MaxInFlight ELSE OpsInFlight)
Used == {i \in Slots : pending[i] # NoReq}
FreeSlot == CHOOSE i \in Slots \ Used : \A j \in Slots \ Used : i <= j
Remove(f, k) == [x \in DOMAIN f \ {k} |-> f[x]]
Put(f, k, v) == [x \in DOMAIN f \cup {k} |-> IF x = k THEN v ELSE f[x]]

ServerInit ==
  /\ transports = << >>
  /\ sessionAuth = << >>
  /\ conn = << >>
  /\ started = {}
  /\ nextSid = 1
  /\ pending = [i \in Slots |-> NoReq]
  /\ todos = << >>
  /\ nextTodoId = 1
  /\ ev = NoEv

\* A request arrives at GET /sse or POST /messages and runs requireMcpAuth.
\* GateReject: the gate answers 401 or 403 itself and the route handler never
\* runs. The gate reads the header alone.
GateReject(Headers, maxSessions) ==
  \E h \in Headers, op \in {"sse", "messages"}, sid \in 0..maxSessions :
    LET g == requireMcpAuth(h) IN
    /\ g.status # 0
    /\ op = "sse" => sid = 0
    /\ ev' = [NoEv EXCEPT !.op = op, !.status = g.status, !.error = g.error,
                          !.sid = sid, !.stage = "gate",
                          !.defects = HeaderDefects(h)]
    /\ UNCHANGED <<transports, sessionAuth, conn, started, nextSid, pending,
                   todos, nextTodoId>>
    /\ UNCHANGED nonServerVars

\* GateAdmit: the gate attaches the claims and calls next(); the route handler
\* runs in a later step, after the verifier's await.
GateAdmit(Headers, Bodies, maxSessions, maxInFlight) ==
  \E h \in Headers, op \in {"sse", "messages"}, sid \in 0..maxSessions, body \in Bodies :
    LET g == requireMcpAuth(h) IN
    /\ g.status = 0
    /\ Cardinality(Used) < maxInFlight
    /\ op = "sse" =>
         /\ sid = 0 /\ body = Ping
         /\ nextSid + Cardinality({i \in Used : pending[i].op = "sse"}) <= maxSessions
    /\ pending' = [pending EXCEPT ![FreeSlot] =
         [op |-> op, claims |-> g.claims, sid |-> sid, body |-> body,
          stage |-> "handler", open |-> TRUE, defects |-> HeaderDefects(h),
          sscp |-> NoScp]]
    /\ ev' = [NoEv EXCEPT !.op = op, !.sid = sid, !.sub = g.claims.sub,
                          !.stage = "gate", !.defects = HeaderDefects(h)]
    /\ UNCHANGED <<transports, sessionAuth, conn, started, nextSid, todos, nextTodoId>>
    /\ UNCHANGED nonServerVars

\* The client of a GET /sse request goes away while the verifier is awaited:
\* the response emits 'close' before the handler has registered its listener.
AbortSse ==
  \E i \in Used :
    /\ pending[i].op = "sse" /\ pending[i].open
    /\ pending' = [pending EXCEPT ![i].open = FALSE]
    /\ ev' = [NoEv EXCEPT !.op = "abort", !.stage = "client"]
    /\ UNCHANGED <<transports, sessionAuth, conn, started, nextSid, todos, nextTodoId>>
    /\ UNCHANGED nonServerVars

\* app.get('/sse') handler: a transport with a fresh sessionId is registered in
\* both maps, the 'close' listener is attached, and server.connect(transport)
\* runs (connectOk: whether it succeeded).
SseHandler ==
  \E i \in Used, connectOk \in BOOLEAN :
    LET r == pending[i]
        sid == nextSid IN
    /\ r.op = "sse" /\ r.stage = "handler"
    /\ transports' = Put(transports, sid, sid)
    /\ sessionAuth' = Put(sessionAuth, sid, r.claims)
    /\ conn' = Put(conn, sid, IF r.open THEN "open" ELSE "dead")
    /\ started' = IF connectOk THEN started \cup {sid} ELSE started
    /\ nextSid' = nextSid + 1
    /\ pending' = [pending EXCEPT ![i] = NoReq]
    /\ ev' = [NoEv EXCEPT !.op = "sse", !.status = IF connectOk THEN 200 ELSE 0,
                          !.sid = sid, !.sub = r.claims.sub, !.scp = r.claims.scp,
                          !.stage = "handler", !.defects = r.defects]
    /\ UNCHANGED <<todos, nextTodoId>>
    /\ UNCHANGED nonServerVars

\* Mutant: the 'close' listener forgets the transports map.
CloseHandler_KeepTransport(sid) ==
  /\ transports' = transports
  /\ sessionAuth' = Remove(sessionAuth, sid)

\* Mutant: the 'close' listener forgets the sessionAuth map.
CloseHandler_KeepSubject(sid) ==
  /\ transports' = Remove(transports, sid)
  /\ sessionAuth' = sessionAuth

\* res.on('close'): both registry entries of the session are deleted.
CloseHandler(sid) ==
  /\ transports' = Remove(transports, sid)
  /\ sessionAuth' = Remove(sessionAuth, sid)

\* The SSE response of a registered session closes (client disconnect).
CloseConnection ==
  \E sid \in DOMAIN conn :
    /\ conn[sid] = "open"
    /\ conn' = [conn EXCEPT ![sid] = "closed"]
    /\ CloseHandler(sid)
    /\ ev' = [NoEv EXCEPT !.op = "close", !.sid = sid, !.stage = "client"]
    /\ UNCHANGED <<started, nextSid, pending, todos, nextTodoId>>
    /\ UNCHANGED nonServerVars

\* Mutant: the handler without the subject comparison.
MessagesOutcome_NoSubjectCheck(c, sid) ==
  IF sid \notin DOMAIN transports
  THEN [status |-> 400, error |-> "Invalid session", routed |-> 0]
  ELSE IF transports[sid] \notin started
       THEN [status |-> 500, error |-> "SSE connection not established",
             routed |-> transports[sid]]
       ELSE [status |-> 202, error |-> "", routed |-> transports[sid]]

\* Mutant: a request naming no registered session falls back to a registered
\* one.
MessagesOutcome_FallbackSession(c, sid) ==
  LET s == IF sid \notin DOMAIN transports /\ DOMAIN transports # {}
           THEN CHOOSE x \in DOMAIN transports : TRUE ELSE sid IN
  IF s \notin DOMAIN transports
  THEN [status |-> 400, error |-> "Invalid session", routed |-> 0]
  ELSE IF s \notin DOMAIN sessionAuth \/ sessionAuth[s].sub # c.sub
       THEN [status |-> 403, error |-> "Forbidden", routed |-> 0]
       ELSE IF transports[s] \notin started
            THEN [status |-> 500, error |-> "SSE connection not established",
                  routed |-> transports[s]]
            ELSE [status |-> 202, error |-> "", routed |-> transports[s]]

\* What app.post('/messages') answers for a request with claims c naming sid:
\* 400 without a transport, 403 on a subject mismatch, else the transport's
\* handlePostMessage (500 before the SSE stream was started, else 202).
MessagesOutcome(c, sid) ==
  IF sid \notin DOMAIN transports
  THEN [status |-> 400, error |-> "Invalid session", routed |-> 0]
  ELSE IF sid \notin DOMAIN sessionAuth \/ sessionAuth[sid].sub # c.sub
       THEN [status |-> 403, error |-> "Forbidden", routed |-> 0]
       ELSE IF transports[sid] \notin started
            THEN [status |-> 500, error |-> "SSE connection not established",
                  routed |-> transports[sid]]
            ELSE [status |-> 202, error |-> "", routed |-> transports[sid]]

\* Mutant: the handler binds the session to the caller before comparing.
MessagesHandler_Rebind ==
  \E i \in Used :
    LET r == pending[i] IN
    /\ r.op = "messages" /\ r.stage = "handler"
    /\ sessionAuth' = IF r.sid \in DOMAIN transports
                      THEN Put(sessionAuth, r.sid, r.claims) ELSE sessionAuth
    /\ pending' = [pending EXCEPT ![i] = NoReq]
    /\ ev' = [NoEv EXCEPT !.op = "messages", !.sid = r.sid, !.sub = r.claims.sub,
                          !.status = IF r.sid \in DOMAIN transports THEN 202 ELSE 400,
                          !.stage = "handler"]
    /\ UNCHANGED <<transports, conn, started, nextSid, todos, nextTodoId>>
    /\ UNCHANGED nonServerVars

\* app.post('/messages') handler.
MessagesHandler ==
  \E i \in Used :
    LET r == pending[i]
        o == MessagesOutcome(r.claims, r.sid) IN
    /\ r.op = "messages" /\ r.stage = "handler"
    /\ pending' = [pending EXCEPT ![i] =
         IF o.status = 202 /\ r.body.tool \in Tools
         THEN [r EXCEPT !.stage = "tool", !.sscp = sessionAuth[r.sid].scp]
         ELSE NoReq]
    /\ ev' = [NoEv EXCEPT !.op = "messages", !.status = o.status, !.error = o.error,
                          !.sid = r.sid, !.sub = r.claims.sub, !.scp = r.claims.scp,
                          !.routed = o.routed, !.stage = "handler",
                          !.defects = r.defects]
    /\ UNCHANGED <<transports, sessionAuth, conn, started, nextSid, todos, nextTodoId>>
    /\ UNCHANGED nonServerVars

\* The todo service as the tool handlers use it; dbOk is whether the database
\* worked (Prisma threw nothing but, in delete, its record-not-found error).
ToolEffect(body, dbOk) ==
  IF body.tool = "create-todo"
  THEN IF dbOk
       THEN [todos |-> Put(todos, nextTodoId, FALSE), next |-> nextTodoId + 1,
             error |-> ""]
       ELSE [todos |-> todos, next |-> nextTodoId, error |-> "Internal Server Error"]
  ELSE IF body.tool = "get-todos"
  THEN [todos |-> todos, next |-> nextTodoId,
        error |-> IF dbOk THEN "" ELSE "Internal Server Error"]
  ELSE IF body.tool = "toggle-todo"
  THEN IF ~dbOk
       THEN [todos |-> todos, next |-> nextTodoId, error |-> "Internal Server Error"]
       ELSE IF body.id \notin DOMAIN todos
            THEN [todos |-> todos, next |-> nextTodoId, error |-> "Not Found"]
            ELSE [todos |-> [todos EXCEPT ![body.id] = ~todos[body.id]],
                  next |-> nextTodoId, error |-> ""]
  ELSE \* delete-todo: deleteTodo() turns every exception into false
       IF dbOk /\ body.id \in DOMAIN todos
       THEN [todos |-> Remove(todos, body.id), next |-> nextTodoId, error |-> ""]
       ELSE [todos |-> todos, next |-> nextTodoId, error |-> "Not Found"]

\* A server.tool handler runs for a message the transport accepted. The table
\* receives at most MaxTodos rows.
ExecTool ==
  \E i \in Used, dbOk \in BOOLEAN :
    LET r == pending[i]
        e == ToolEffect(r.body, dbOk) IN
    /\ r.stage = "tool"
    /\ (r.body.tool = "create-todo" /\ dbOk) => nextTodoId <= MaxTodos
    /\ todos' = e.todos
    /\ nextTodoId' = e.next
    /\ pending' = [pending EXCEPT ![i] = NoReq]
    /\ ev' = [NoEv EXCEPT !.op = "tool", !.status = 200, !.error = e.error,
                          !.sid = r.sid, !.sub = r.claims.sub, !.scp = r.claims.scp,
                          !.routed = r.sid, !.tool = r.body.tool,
                          !.changed = (e.todos # todos), !.stage = "tool",
                          !.defects = r.defects, !.sscp = r.sscp,
                          !.dbOk = dbOk,
                          !.missing = (r.body.tool \in {"toggle-todo", "delete-todo"}
                                         /\ r.body.id \notin DOMAIN todos)]
    /\ UNCHANGED <<transports, sessionAuth, conn, started, nextSid>>
    /\ UNCHANGED nonServerVars

\* ------------------------------------------- token exchange (agent0)

ClientId == "agent0-client"
OrgTokenEndpoint == "https://okta/oauth2/v1/token"
DefaultResourceEndpoint == "https://okta/oauth2/default/v1/token"
McpTokenEndpoint == "https://okta/oauth2/mcp/v1/token"
ConfiguredEndpoints == {"", McpTokenEndpoint, OrgTokenEndpoint}

\* Math.random(): a value in [0, 1), given by the digits of its base-36
\* fraction (none for 0); two digit values stand for the thirty-six.
DigitChars == {"0", "z"}
RandomValues == UNION {[1..n -> DigitChars] : n \in 0..MaxFracDigits}
\* Number.prototype.toString(36) of such a value, as a sequence of characters.
ToString36(r) == IF r = << >> THEN <<"0">> ELSE <<"0", ".">> \o r
\* String.prototype.substring(start): the characters from index start on.
Substring(str, start) == SubSeq(str, start + 1, Len(str))
SubstringStart == 7
Jti(r) == Substring(ToString36(r), SubstringStart)

NoAssertion ==
  [mint |-> 0, jti |-> << >>, aud |-> "", iss |-> "", sub |-> "", kid |-> ""]
\* createClientAssertion(audience), signed with a usable key; serial numbers
\* the jwt.sign calls.
createClientAssertion(audience, rnd, serial) ==
  [mint |-> serial, jti |-> Jti(rnd), aud |-> audience, iss |-> ClientId,
   sub |-> ClientId, kid |-> "{yourKID}"]

NoRes ==
  [status |-> 0, success |-> FALSE, id_jag |-> "", access_token |-> "",
   error |-> "", details |-> "", note |-> ""]
IdleCall ==
  [pc |-> "idle", idToken |-> "", reqs |-> << >>, r1 |-> "", r2 |-> "",
   e1 |-> "", e2 |-> "", idJag |-> "", logged |-> {}, res |-> NoRes]
Calls == 1..MaxCalls

\* What a token endpoint can answer: the token, an OAuth error body, or no
\* answer at all (axios rejects with a message only).
Outcomes == {"ok", "provider", "network"}
\* The OAuth error bodies a token endpoint answers with (error.response.data).
ProviderErrors == {"invalid_grant", "invalid_client"}
\* What a failed axios.post carries: the endpoint's error body, or only a
\* message when there was no response.
UpstreamErrors(out) ==
  IF out = "provider" THEN ProviderErrors
  ELSE IF out = "network" THEN {"network-error"} ELSE {""}
\* Mutant: the upstream error is dropped.
ErrorOf_Swallowed(out, providerError) == ""
\* error.response?.data || error.message
ErrorOf(out, providerError) == IF out = "provider" THEN providerError ELSE "network-error"

ExchangeIdle ==
  /\ privateKey = "valid"
  /\ resourceTokenEndpoint = ""
  /\ calls = [c \in Calls |-> IdleCall]
  /\ mintCount = 0

\* The constructor: loadPrivateKey() reads the key file once.
ExchangeInit ==
  /\ privateKey \in {"null", "valid", "unusable"}
  /\ resourceTokenEndpoint \in ConfiguredEndpoints
  /\ calls = [c \in Calls |-> IdleCall]
  /\ mintCount = 0

\* exchangeIdTokenForIdJag up to its await: the assertion is signed for the org
\* token endpoint and the token-exchange request is posted there.
exchangeIdTokenForIdJag(call, idToken, rnd) ==
  [call EXCEPT
     !.pc = "hop1", !.idToken = idToken, !.logged = {idToken},
     !.reqs = Append(call.reqs,
        [hop |-> 1, endpoint |-> OrgTokenEndpoint, grant |-> "token-exchange",
         token |-> idToken,
         ca |-> createClientAssertion(OrgTokenEndpoint, rnd, mintCount + 1)])]

\* Mutant: hop 2 authenticates with the assertion that hop 1 signed.
exchangeIdJagForAccessToken_Reuse(call, idJag, rnd) ==
  LET endpoint == IF resourceTokenEndpoint # "" THEN resourceTokenEndpoint
                  ELSE DefaultResourceEndpoint IN
  [call EXCEPT
     !.pc = "hop2", !.r1 = "ok", !.idJag = idJag,
     !.reqs = Append(call.reqs,
        [hop |-> 2, endpoint |-> endpoint, grant |-> "jwt-bearer",
         token |-> idJag, ca |-> call.reqs[1].ca])]

\* exchangeIdJagForAccessToken up to its await: a second assertion is signed
\* for the resource token endpoint and the jwt-bearer request is posted there.
exchangeIdJagForAccessToken(call, idJag, rnd) ==
  LET endpoint == IF resourceTokenEndpoint # "" THEN resourceTokenEndpoint
                  ELSE DefaultResourceEndpoint IN
  [call EXCEPT
     !.pc = "hop2", !.r1 = "ok", !.idJag = idJag,
     !.reqs = Append(call.reqs,
        [hop |-> 2, endpoint |-> endpoint, grant |-> "jwt-bearer",
         token |-> idJag,
         ca |-> createClientAssertion(endpoint, rnd, mintCount + 1)])]

Done(call, res) == [call EXCEPT !.pc = "done", !.res = res]

KeyNotLoaded == "Cross-app access not configured properly. Private key not loaded."

\* Mutant: the handler without its check of this.privateKey.
StartExchange_NoKeyCheck ==
  \E c \in Calls, idToken \in {"", "id-token"}, rnd \in RandomValues :
    /\ calls[c].pc = "idle"
    /\ IF idToken = ""
       THEN /\ calls' = [calls EXCEPT ![c] = Done(@,
                 [NoRes EXCEPT !.status = 401,
                               !.error = "No ID token found in session"])]
            /\ UNCHANGED mintCount
       ELSE /\ calls' = [calls EXCEPT ![c] = exchangeIdTokenForIdJag(@, idToken, rnd)]
            /\ mintCount' = mintCount + 1
    /\ UNCHANGED <<privateKey, resourceTokenEndpoint, serverVars, agentVars,
                   scriptVars, loginVars, toggleVars>>

\* handleCrossAppAccess from its start to the first await.
StartExchange ==
  \E c \in Calls, idToken \in {"", "id-token"}, rnd \in RandomValues :
    /\ calls[c].pc = "idle"
    /\ IF idToken = ""
       THEN /\ calls' = [calls EXCEPT ![c] = Done(@,
                 [NoRes EXCEPT !.status = 401,
                               !.error = "No ID token found in session"])]
            /\ UNCHANGED mintCount
       ELSE IF privateKey = "null"
       THEN /\ calls' = [calls EXCEPT ![c] = Done([@ EXCEPT !.idToken = idToken],
                 [NoRes EXCEPT !.status = 500,
                               !.error = KeyNotLoaded])]
            /\ UNCHANGED mintCount
       ELSE IF privateKey = "unusable"
       THEN \* jwt.sign throws inside exchangeIdTokenForIdJag
            /\ calls' = [calls EXCEPT ![c] =
                 Done([@ EXCEPT !.idToken = idToken, !.logged = {idToken}],
                 [NoRes EXCEPT !.status = 500,
                               !.error = "Token exchange request failed",
                               !.details = "sign-error"])]
            /\ UNCHANGED mintCount
       ELSE /\ calls' = [calls EXCEPT ![c] = exchangeIdTokenForIdJag(@, idToken, rnd)]
            /\ mintCount' = mintCount + 1
    /\ UNCHANGED <<privateKey, resourceTokenEndpoint, serverVars, agentVars,
                   scriptVars, loginVars, toggleVars>>

\* Mutant: the handler goes on to hop 2 whatever hop 1 answered.
Hop1Returns_Regardless ==
  \E c \in Calls, out \in Outcomes, rnd \in RandomValues :
    /\ calls[c].pc = "hop1"
    /\ calls' = [calls EXCEPT ![c] =
         [exchangeIdJagForAccessToken(@, "id-jag", rnd) EXCEPT !.r1 = out]]
    /\ mintCount' = mintCount + 1
    /\ UNCHANGED <<privateKey, resourceTokenEndpoint, serverVars, agentVars,
                   scriptVars, loginVars, toggleVars>>

\* The org token endpoint answers hop 1: on an error the handler answers 500
\* with the error, otherwise it goes on to hop 2 up to its await.
Hop1Returns ==
  \E c \in Calls, out \in Outcomes :
    /\ calls[c].pc = "hop1"
    /\ IF out # "ok"
       THEN /\ \E perr \in UpstreamErrors(out) :
                 calls' = [calls EXCEPT ![c] =
                   Done([@ EXCEPT !.r1 = out, !.e1 = perr,
                                  !.logged = @ \cup {ErrorOf(out, perr)}],
                        [NoRes EXCEPT !.status = 500,
                                      !.error = "Token exchange request failed",
                                      !.details = ErrorOf(out, perr)])]
            /\ UNCHANGED mintCount
       ELSE /\ \E rnd \in RandomValues :
                 calls' = [calls EXCEPT ![c] = exchangeIdJagForAccessToken(@, "id-jag", rnd)]
            /\ mintCount' = mintCount + 1
    /\ UNCHANGED <<privateKey, resourceTokenEndpoint, serverVars, agentVars,
                   scriptVars, loginVars, toggleVars>>

Hop2FailedNote == "ID-JAG obtained successfully, but Access Token exchange failed"

\* The resource token endpoint answers hop 2 and the handler answers.
Hop2Returns ==
  \E c \in Calls, out \in Outcomes : \E perr \in UpstreamErrors(out) :
    /\ calls[c].pc = "hop2"
    /\ calls' = [calls EXCEPT ![c] =
         IF out = "ok"
         THEN Done([@ EXCEPT !.r2 = out],
                   [NoRes EXCEPT !.status = 200, !.success = TRUE,
                                 !.id_jag = calls[c].idJag,
                                 !.access_token = "mcp-token"])
         ELSE Done([@ EXCEPT !.r2 = out, !.e2 = perr,
                             !.logged = @ \cup {ErrorOf(out, perr)}],
                   [NoRes EXCEPT !.status = 200, !.success = TRUE,
                                 !.id_jag = calls[c].idJag,
                                 !.note = Hop2FailedNote,
                                 !.error = ErrorOf(out, perr)])]
    /\ UNCHANGED <<privateKey, resourceTokenEndpoint, mintCount, serverVars,
                   agentVars, scriptVars, loginVars, toggleVars>>

ExchangeNext ==
  \/ StartExchange
  \/ Hop1Returns
  \/ Hop2Returns

\* ------------------------------------------------ agent0 (app server)

MaxLogins == 2
MaxTime == 2
\* expires_in of the MCP access token, in time steps.
TokenLifetimes == {1, 2}
Agent0 == "agent0"
Todo0Mcp == "todo0-mcp"

NoToken == [from |-> 0, iat |-> 0, exp |-> 0]
\* No Agent for the subject in subjectToAgent.
NoAgent ==
  [present |-> FALSE, idToken |-> 0, pc |-> "", transport |-> "null",
   isConnected |-> FALSE, token |-> NoToken]
NoAgev ==
  [op |-> "", sub |-> "", idToken |-> 0, token |-> NoToken, at |-> 0,
   created |-> FALSE, returned |-> FALSE]

AgentInit ==
  /\ now = 0
  /\ session = [u \in Subjects |-> 0]
  /\ issued = 0
  /\ subjectToAgent = [u \in Subjects |-> NoAgent]
  /\ agev = NoAgev
  /\ exited = {}

AgentFrame ==
  UNCHANGED <<serverVars, exchangeVars, scriptVars, loginVars, toggleVars>>

\* Time passes.
Tick ==
  /\ Agent0 \notin exited /\ now < MaxTime
  /\ now' = now + 1
  /\ agev' = [NoAgev EXCEPT !.op = "tick", !.at = now + 1]
  /\ UNCHANGED <<session, issued, subjectToAgent, exited>>
  /\ AgentFrame

\* handleCallback with tokens received: the session stores the new ID token.
HandleCallback ==
  \E u \in Subjects :
    /\ Agent0 \notin exited /\ issued < MaxLogins
    /\ session[u] = 0
    /\ issued' = issued + 1
    /\ session' = [session EXCEPT ![u] = issued + 1]
    /\ agev' = [NoAgev EXCEPT !.op = "login", !.sub = u, !.idToken = issued + 1,
                              !.at = now]
    /\ UNCHANGED <<now, subjectToAgent, exited>>
    /\ AgentFrame

\* handleLogout: req.session.destroy() discards the session with all it
\* holds.
HandleLogout ==
  \E u \in Subjects :
    /\ Agent0 \notin exited
    /\ session[u] # 0
    /\ session' = [session EXCEPT ![u] = 0]
    /\ pkce' = [pkce EXCEPT ![u] = 0]
    /\ agev' = [NoAgev EXCEPT !.op = "logout", !.sub = u, !.idToken = session[u],
                              !.at = now]
    /\ UNCHANGED <<now, issued, subjectToAgent, exited>>
    /\ authev' = [op |-> "logout", sub |-> u, answer |-> "redirect", pkce |-> 0,
                   tokens |-> "", set |-> FALSE]
    /\ UNCHANGED <<callbacks, logins>>
    /\ UNCHANGED <<serverVars, exchangeVars, scriptVars, toggleVars>>

\* Mutant: getAgentForSession without the cache lookup.
GetAgentForSession_NoLookup ==
  \E u \in Subjects :
    /\ Agent0 \notin exited
    /\ session[u] # 0
    /\ subjectToAgent' = [subjectToAgent EXCEPT ![u] =
         [NoAgent EXCEPT !.present = TRUE, !.idToken = session[u],
                         !.pc = "exchanging"]]
    /\ agev' = [NoAgev EXCEPT !.op = "getAgent", !.sub = u,
                              !.idToken = session[u], !.at = now,
                              !.created = TRUE]
    /\ UNCHANGED <<now, session, issued, exited>>
    /\ AgentFrame

\* getAgentForSession for a chat request of u's session: the cached Agent is
\* returned, or a new one is cached and its connect() runs up to its first
\* await.
GetAgentForSession ==
  \E u \in Subjects :
    /\ Agent0 \notin exited
    /\ session[u] # 0
    /\ IF subjectToAgent[u].present
       THEN UNCHANGED subjectToAgent
       ELSE subjectToAgent' = [subjectToAgent EXCEPT ![u] =
              [NoAgent EXCEPT !.present = TRUE, !.idToken = session[u],
                              !.pc = "exchanging"]]
    /\ agev' = [NoAgev EXCEPT !.op = "getAgent", !.sub = u,
                              !.idToken = subjectToAgent'[u].idToken,
                              !.token = subjectToAgent'[u].token, !.at = now,
                              !.created = ~subjectToAgent[u].present,
                              !.returned = subjectToAgent[u].present]
    /\ UNCHANGED <<now, session, issued, exited>>
    /\ AgentFrame

\* TokenExchangeHandler.exchangeToken(idToken): what Agent.connect reads of its
\* result (a result may report success and carry no access token).
exchangeToken(idToken, ok, withToken, lifetime) ==
  [success |-> ok,
   access_token |-> IF withToken
                    THEN [from |-> idToken, iat |-> now, exp |-> now + lifetime]
                    ELSE NoToken,
   expires_in |-> IF withToken THEN lifetime ELSE 0]

\* Mutant: connect builds the transport whatever the exchange returned.
ConnectAfterExchange_Unchecked(a, r) ==
  [a EXCEPT !.pc = "connecting", !.transport = "open", !.token = r.access_token]

\* Agent.connect between the exchange's result and client.connect: it throws
\* unless the result reports success and carries an access token, else it
\* builds the transport with the token as its Bearer credential.
ConnectAfterExchange(a, r) ==
  IF ~r.success \/ r.access_token = NoToken
  THEN [a EXCEPT !.pc = "failed"]
  ELSE [a EXCEPT !.pc = "connecting", !.transport = "open",
                 !.token = r.access_token]

\* Agent.connect after exchangeToken returned: on a failure it throws, else it
\* builds the transport with the token in its Authorization header and awaits
\* client.connect.
ExchangeReturns ==
  \E u \in Subjects, ok \in BOOLEAN, withToken \in BOOLEAN,
     lifetime \in TokenLifetimes :
    LET a == subjectToAgent[u]
        r == exchangeToken(a.idToken, ok, withToken, lifetime) IN
    /\ Agent0 \notin exited
    /\ a.present /\ a.pc = "exchanging"
    /\ ~withToken => lifetime = 1
    /\ subjectToAgent' = [subjectToAgent EXCEPT ![u] = ConnectAfterExchange(a, r)]
    /\ agev' = [NoAgev EXCEPT !.op = "exchange", !.sub = u, !.idToken = a.idToken,
                              !.token = r.access_token, !.at = now]
    /\ UNCHANGED <<now, session, issued, exited>>
    /\ AgentFrame

\* Agent.connect after client.connect(transport) returned.
ConnectReturns ==
  \E u \in Subjects, ok \in BOOLEAN :
    LET a == subjectToAgent[u] IN
    /\ Agent0 \notin exited
    /\ a.present /\ a.pc = "connecting"
    /\ subjectToAgent' = [subjectToAgent EXCEPT ![u] =
         IF ok THEN [a EXCEPT !.pc = "ready", !.isConnected = TRUE]
         ELSE [a EXCEPT !.pc = "failed"]]
    /\ agev' = [NoAgev EXCEPT !.op = "connect", !.sub = u, !.idToken = a.idToken,
                              !.token = a.token, !.at = now, !.returned = ok]
    /\ UNCHANGED <<now, session, issued, exited>>
    /\ AgentFrame

\* Agent.callTool in a chat request of u's session: the request goes out on
\* the agent's transport, with the Authorization header the transport was
\* built with.
CallTool ==
  \E u \in Subjects :
    LET a == subjectToAgent[u] IN
    /\ Agent0 \notin exited
    /\ session[u] # 0
    /\ a.present /\ a.isConnected /\ a.transport = "open"
    /\ agev' = [NoAgev EXCEPT !.op = "callTool", !.sub = u, !.idToken = a.idToken,
                              !.token = a.token, !.at = now]
    /\ UNCHANGED <<now, session, issued, subjectToAgent, exited>>
    /\ AgentFrame

\* Agent.disconnect
disconnect(a) ==
  IF a.transport # "null"
  THEN [a EXCEPT !.transport = "closed", !.isConnected = FALSE]
  ELSE a

\* agent0's SIGINT / SIGTERM handler: disconnectAll(), then process.exit(0).
\* agev tells whether disconnectAll left a transport open before the map was
\* cleared.
Agent0Signal ==
  /\ Agent0 \notin exited
  /\ subjectToAgent' = [u \in Subjects |-> NoAgent]
  /\ exited' = exited \cup {Agent0}
  /\ agev' = [NoAgev EXCEPT !.op = "exit", !.at = now,
       !.sub = IF \A u \in Subjects :
                    disconnect(subjectToAgent[u]).transport # "open"
               THEN "all-closed" ELSE "left-open"]
  /\ UNCHANGED <<now, session, issued>>
  /\ AgentFrame

\* The todo0 MCP server process receives SIGINT / SIGTERM: it registers no
\* handler, so the process ends as it is.
Todo0Signal ==
  /\ Todo0Mcp \notin exited
  /\ exited' = exited \cup {Todo0Mcp}
  /\ ev' = [NoEv EXCEPT !.op = "exit", !.stage = "process"]
  /\ UNCHANGED <<transports, sessionAuth, conn, started, nextSid, pending,
                 todos, nextTodoId>>
  /\ UNCHANGED <<now, session, issued, subjectToAgent, agev>>
  /\ UNCHANGED <<exchangeVars, scriptVars, loginVars, toggleVars>>

AgentNext ==
  \/ Tick
  \/ HandleCallback
  \/ HandleLogout
  \/ GetAgentForSession
  \/ ExchangeReturns
  \/ ConnectReturns
  \/ CallTool
  \/ Agent0Signal

\* ------------------------------------------------- agent0: login flow

NoCallback == [pc |-> "idle", pkce |-> 0, state |-> 0]
NoAuthev ==
  [op |-> "", sub |-> "", answer |-> "", pkce |-> 0, tokens |-> "", set |-> FALSE]
\* What the code exchange of a callback returns: both tokens, one of them
\* alone, or an error.
TokenSets == {"both", "id_token", "access_token", "error"}

LoginInit ==
  /\ pkce = [u \in Subjects |-> 0]
  /\ callbacks = [u \in Subjects |-> NoCallback]
  /\ logins = 0
  /\ authev = NoAuthev

LoginFrame ==
  UNCHANGED <<serverVars, exchangeVars, scriptVars, toggleVars, now,
              subjectToAgent, agev, exited>>

\* handleLogin: fresh PKCE parameters are stored in the session, replacing
\* earlier ones (ok: getClient() did not throw).
HandleLogin ==
  \E u \in Subjects, ok \in BOOLEAN :
    /\ Agent0 \notin exited /\ logins < MaxLogins
    /\ pkce' = IF ok THEN [pkce EXCEPT ![u] = logins + 1] ELSE pkce
    /\ logins' = IF ok THEN logins + 1 ELSE logins
    /\ authev' = [NoAuthev EXCEPT !.op = "login", !.sub = u,
                                  !.answer = IF ok THEN "redirect" ELSE "500",
                                  !.pkce = IF ok THEN logins + 1 ELSE 0]
    /\ UNCHANGED <<session, issued, callbacks>>
    /\ LoginFrame

\* Mutant: the callback without the test of the stored PKCE parameters.
CallbackCheck_NoPkce(query, stored) ==
  IF query = "error" THEN "error"
  ELSE IF query = "no_code" THEN "no_code"
  ELSE ""

\* What handleCallback answers before its code exchange: "" when it goes on.
CallbackCheck(query, stored) ==
  IF query = "error" THEN "error"
  ELSE IF query = "no_code" THEN "no_code"
  ELSE IF stored = 0 THEN "missing_verifier"
  ELSE ""

\* handleCallback up to the await of client.callback: the query is looked at,
\* the session's PKCE parameters are read, and the code exchange starts with
\* them as checks (state: the state parameter of the query).
CallbackStart ==
  \E u \in Subjects, query \in {"error", "no_code", "code"}, state \in 0..MaxLogins :
    LET answer == CallbackCheck(query, pkce[u]) IN
    /\ Agent0 \notin exited
    /\ callbacks[u].pc = "idle"
    /\ query # "code" => state = 0
    /\ callbacks' = IF answer = ""
                    THEN [callbacks EXCEPT ![u] =
                            [pc |-> "awaiting", pkce |-> pkce[u], state |-> state]]
                    ELSE callbacks
    /\ authev' = [NoAuthev EXCEPT !.op = "callback", !.sub = u,
                                  !.answer = IF answer = "" THEN "awaiting"
                                             ELSE answer,
                                  !.pkce = pkce[u]]
    /\ UNCHANGED <<session, issued, pkce, logins>>
    /\ LoginFrame

\* client.callback returns or throws (it throws when the query's state is not
\* the stored one); with both tokens the session stores them and the PKCE
\* parameters are deleted, else the catch block redirects.
CallbackReturns ==
  \E u \in Subjects, tokens \in TokenSets :
    LET c == callbacks[u]
        tokenSet == IF c.state = c.pkce THEN tokens ELSE "error"
        stored == tokenSet = "both" IN
    /\ Agent0 \notin exited
    /\ c.pc = "awaiting"
    /\ stored => issued < MaxLogins
    /\ session' = IF stored THEN [session EXCEPT ![u] = issued + 1] ELSE session
    /\ issued' = IF stored THEN issued + 1 ELSE issued
    /\ pkce' = IF stored THEN [pkce EXCEPT ![u] = 0] ELSE pkce
    /\ callbacks' = [callbacks EXCEPT ![u] = NoCallback]
    /\ authev' = [NoAuthev EXCEPT !.op = "callback", !.sub = u,
                                  !.answer = IF stored THEN "redirect"
                                             ELSE "token_exchange_failed",
                                  !.pkce = c.pkce, !.tokens = tokenSet,
                                  !.set = stored]
    /\ UNCHANGED logins
    /\ LoginFrame

\* A request to a route behind requireAuth().
RequireAuth ==
  \E u \in Subjects :
    /\ Agent0 \notin exited
    /\ authev' = [NoAuthev EXCEPT !.op = "route", !.sub = u,
                                  !.answer = IF session[u] # 0 THEN "next" ELSE "401"]
    /\ UNCHANGED <<session, issued, pkce, callbacks, logins>>
    /\ LoginFrame

LoginNext ==
  \/ HandleLogin
  \/ CallbackStart
  \/ CallbackReturns
  \/ RequireAuth
  \/ HandleLogout

\* ------------------------------------------- todo0: toggleTodo, step by step

ToggleCalls == 1..MaxToggleCalls
TodoIds == 1..MaxTodos
NoToggle == [pc |-> "idle", id |-> 0, completed |-> FALSE]
NoTogev == [op |-> "", id |-> 0, result |-> "", changed |-> FALSE]

ToggleInit ==
  /\ toggling = [c \in ToggleCalls |-> NoToggle]
  /\ toggled = [id \in TodoIds |-> 0]
  /\ togev = NoTogev

ToggleFrame ==
  UNCHANGED <<transports, sessionAuth, conn, started, nextSid, pending, ev,
              exchangeVars, agentVars, scriptVars, loginVars>>

\* createTodo: prisma.todo.create adds a row under the next id, not completed.
CreateTodo ==
  /\ nextTodoId <= MaxTodos
  /\ todos' = Put(todos, nextTodoId, FALSE)
  /\ nextTodoId' = nextTodoId + 1
  /\ togev' = [NoTogev EXCEPT !.op = "create", !.id = nextTodoId,
                              !.result = "todo", !.changed = TRUE]
  /\ UNCHANGED <<toggling, toggled>>
  /\ ToggleFrame

\* deleteTodo: prisma.todo.delete; an exception becomes false.
DeleteTodo ==
  \E id \in TodoIds :
    /\ todos' = IF id \in DOMAIN todos THEN Remove(todos, id) ELSE todos
    /\ togev' = [NoTogev EXCEPT !.op = "delete", !.id = id,
                                !.result = IF id \in DOMAIN todos THEN "true"
                                           ELSE "false",
                                !.changed = id \in DOMAIN todos]
    /\ UNCHANGED <<nextTodoId, toggling, toggled>>
    /\ ToggleFrame

\* The value toggleTodo writes for the row it read.
ToggleValue(todo) == ~todo.completed

\* toggleTodo up to its update: findUnique returns the row or null; null is
\* returned at once, else the update is issued with the negation of the
\* completed flag that was read.
ToggleFind ==
  \E c \in ToggleCalls, id \in TodoIds :
    /\ toggling[c].pc = "idle"
    /\ toggled[id] < MaxToggles
    /\ IF id \in DOMAIN todos
       THEN /\ toggling' = [toggling EXCEPT ![c] =
                              [pc |-> "update", id |-> id, completed |-> todos[id]]]
            /\ togev' = [NoTogev EXCEPT !.op = "find", !.id = id, !.result = "todo"]
       ELSE /\ toggling' = toggling
            /\ togev' = [NoTogev EXCEPT !.op = "toggle", !.id = id,
                                        !.result = "null"]
    /\ UNCHANGED <<todos, nextTodoId, toggled>>
    /\ ToggleFrame

\* prisma.todo.update runs: it writes the value computed from the row read
\* earlier and returns the row, or throws when the row is gone.
ToggleUpdate ==
  \E c \in ToggleCalls :
    LET t == toggling[c]
        found == t.id \in DOMAIN todos IN
    /\ t.pc = "update"
    /\ todos' = IF found THEN [todos EXCEPT ![t.id] = ToggleValue(t)] ELSE todos
    /\ toggled' = IF found THEN [toggled EXCEPT ![t.id] = @ + 1] ELSE toggled
    /\ toggling' = [toggling EXCEPT ![c] = NoToggle]
    /\ togev' = [NoTogev EXCEPT !.op = "toggle", !.id = t.id,
                                !.result = IF found THEN "todo" ELSE "throws",
                                !.changed = found]
    /\ UNCHANGED nextTodoId
    /\ ToggleFrame

ToggleNext ==
  \/ CreateTodo
  \/ DeleteTodo
  \/ ToggleFind
  \/ ToggleUpdate

\* ------------------------------------------- tenant scripts: rollback state

MaxIds == 2    \* ids per array of an updateRollbackState input

\* The array fields of RollbackState that hold id strings.
StringArrayFields ==
  {"mcpAuthServerIds", "agent0AppIds", "todo0AppIds", "agent0AppUserIds",
   "todo0AppUserIds", "agentIdentityIds", "mcpPolicyIds", "mcpPolicyRuleIds",
   "trustedOriginNames"}

\* createEmptyState(oktaDomain); agentOwnerSetupMethod "" is undefined.
createEmptyState(oktaDomain) ==
  [oktaDomain |-> oktaDomain,
   mcpAuthServerIds |-> << >>, agent0AppIds |-> << >>, todo0AppIds |-> << >>,
   agent0AppUserIds |-> << >>, todo0AppUserIds |-> << >>,
   agentIdentityIds |-> << >>, agentConnections |-> << >>,
   agentOwnerSetupMethod |-> "",
   mcpPolicyIds |-> << >>, mcpPolicyRuleIds |-> << >>,
   trustedOriginNames |-> << >>]

Range(s) == {s[k] : k \in 1..Len(s)}
\* A property of an object read where it may be absent: an array parameter's
\* default [], a string's undefined ("").
Opt(o, f) == IF f \in DOMAIN o THEN o[f] ELSE << >>
OptStr(o, f) == IF f \in DOMAIN o THEN o[f] ELSE ""

\* Mutant: mergeArrays without the includes test.
mergeArrays_NoIncludes(existing, newItems) ==
  existing \o newItems

RECURSIVE MergeLoop(_, _, _)
\* mergeArrays's loop from the k-th new item on.
MergeLoop(merged, newItems, k) ==
  IF k > Len(newItems) THEN merged
  ELSE LET item == newItems[k] IN
       MergeLoop(IF item # "" /\ item \notin Range(merged)
                 THEN Append(merged, item) ELSE merged,
                 newItems, k + 1)

mergeArrays(existing, newItems) ==
  MergeLoop(existing, newItems, 1)

RECURSIVE MergeConnLoop(_, _, _)
MergeConnLoop(merged, newItems, k) ==
  IF k > Len(newItems) THEN merged
  ELSE LET item == newItems[k] IN
       MergeConnLoop(
         IF \A j \in 1..Len(merged) : merged[j].connectionId # item.connectionId
         THEN Append(merged, item) ELSE merged,
         newItems, k + 1)

mergeConnectionArrays(existing, newItems) ==
  MergeConnLoop(existing, newItems, 1)

\* updateRollbackState(currentState, updates): the merged state, which is also
\* what it writes to the state file. Properties of updates that RollbackState
\* does not name are not read.
updateRollbackState(currentState, updates) ==
  [oktaDomain |-> IF OptStr(updates, "oktaDomain") # ""
                  THEN updates.oktaDomain ELSE currentState.oktaDomain,
   mcpAuthServerIds |->
     mergeArrays(currentState.mcpAuthServerIds, Opt(updates, "mcpAuthServerIds")),
   agent0AppIds |->
     mergeArrays(currentState.agent0AppIds, Opt(updates, "agent0AppIds")),
   todo0AppIds |->
     mergeArrays(currentState.todo0AppIds, Opt(updates, "todo0AppIds")),
   agent0AppUserIds |->
     mergeArrays(currentState.agent0AppUserIds, Opt(updates, "agent0AppUserIds")),
   todo0AppUserIds |->
     mergeArrays(currentState.todo0AppUserIds, Opt(updates, "todo0AppUserIds")),
   agentIdentityIds |->
     mergeArrays(currentState.agentIdentityIds, Opt(updates, "agentIdentityIds")),
   agentConnections |->
     mergeConnectionArrays(currentState.agentConnections,
                           Opt(updates, "agentConnections")),
   agentOwnerSetupMethod |->
     IF OptStr(updates, "agentOwnerSetupMethod") # ""
     THEN updates.agentOwnerSetupMethod ELSE currentState.agentOwnerSetupMethod,
   mcpPolicyIds |->
     mergeArrays(currentState.mcpPolicyIds, Opt(updates, "mcpPolicyIds")),
   mcpPolicyRuleIds |->
     mergeArrays(currentState.mcpPolicyRuleIds, Opt(updates, "mcpPolicyRuleIds")),
   trustedOriginNames |->
     mergeArrays(currentState.trustedOriginNames, Opt(updates, "trustedOriginNames"))]

\* Inputs of an updateRollbackState application.
SeqsUpTo(S, n) == UNION {[1..k -> S] : k \in 0..n}
NoDuplicates(s) == \A j, k \in 1..Len(s) : j # k => s[j] # s[k]
NoDuplicateConnections(s) ==
  \A j, k \in 1..Len(s) : j # k => s[j].connectionId # s[k].connectionId
MergeIds == {"id1", "id2"}
MergeConnections == [agentId : {"ag1", "ag2"}, connectionId : {"c1", "c2"}]
\* States without duplicates, in two of the arrays.
MergeStates ==
  {[createEmptyState("dev.okta.example") EXCEPT
      !.mcpAuthServerIds = s, !.agentConnections = c] :
     s \in {x \in SeqsUpTo(MergeIds, MaxIds) : NoDuplicates(x)},
     c \in {x \in SeqsUpTo(MergeConnections, MaxIds) : NoDuplicateConnections(x)}}
\* Updates naming none, one or both of the arrays; an item may be "" and may
\* occur twice.
MergeUpdates ==
  LET s == SeqsUpTo(MergeIds \cup {""}, MaxIds)
      c == SeqsUpTo(MergeConnections, MaxIds) IN
  {<< >>} \cup {[mcpAuthServerIds |-> x] : x \in s}
          \cup {[agentConnections |-> y] : y \in c}
          \cup {[mcpAuthServerIds |-> x, agentConnections |-> y] : x \in s, y \in c}

NoMerge ==
  [pc |-> "idle", cur |-> createEmptyState(""), upd |-> << >>,
   once |-> createEmptyState(""), twice |-> createEmptyState("")]

\* updateRollbackState applied to the inputs, and applied again to its result.
ApplyUpdate ==
  /\ merge.pc = "input"
  /\ merge' = [merge EXCEPT !.pc = "once",
                            !.once = updateRollbackState(merge.cur, merge.upd)]
  /\ UNCHANGED <<rollbackState, okta, boot, roll>>
  /\ UNCHANGED <<serverVars, exchangeVars, agentVars, loginVars, toggleVars>>

ApplyAgain ==
  /\ merge.pc = "once"
  /\ merge' = [merge EXCEPT !.pc = "twice",
                            !.twice = updateRollbackState(merge.once, merge.upd)]
  /\ UNCHANGED <<rollbackState, okta, boot, roll>>
  /\ UNCHANGED <<serverVars, exchangeVars, agentVars, loginVars, toggleVars>>

MergeNext ==
  \/ ApplyUpdate
  \/ ApplyAgain

\* ------------------------------------------------ tenant scripts: bootstrap

OktaDomain == "dev.okta.example"
OwnerSetupMethods == {"standard", "developer"}

\* A resource in the tenant: its id, and the array of the state file in which
\* rollback looks for it.
Res(field, id) == [field |-> field, id |-> id]
Agent0ApiAS == Res("agent0ApiAuthServerIds", "as-agent0-api")
RestApiAS == Res("restApiAuthServerIds", "as-rest-api")
McpAS == Res("mcpAuthServerIds", "as-mcp")
Agent0App == Res("agent0AppIds", "app-agent0")
Todo0App == Res("todo0AppIds", "app-todo0")
AgentIdentity == Res("agentIdentityIds", "agent-1")
AgentConnection == Res("agentConnections", "conn-1")
Agent0ApiPolicy == Res("agent0ApiPolicyIds", "pol-agent0-api")
Agent0ApiPolicyRule == Res("agent0ApiPolicyRuleIds", "rule-agent0-api")
RestApiPolicy == Res("restApiPolicyIds", "pol-rest-api")
RestApiPolicyRule == Res("restApiPolicyRuleIds", "rule-rest-api")
McpPolicy == Res("mcpPolicyIds", "pol-mcp")
McpPolicyRule == Res("mcpPolicyRuleIds", "rule-mcp")
TrustedOrigin(name) == Res("trustedOriginNames", name)

\* One awaited call of bootstrap: the resources it creates when it succeeds,
\* the updateRollbackState that follows it ("<< >>": none), and what may exist
\* in the tenant when it throws.
Call(name, creates, update) ==
  [call |-> name, creates |-> creates, update |-> update, leftover |-> {{}}]
Created(r) ==
  Call("create", {r}, [f \in {r.field} |-> <<r.id>>])

\* bootstrap's try block, call by call.
BootstrapSteps(method) ==
  << Created(Agent0ApiAS), Call("addScopes", {}, << >>),
     Created(RestApiAS), Call("addScopes", {}, << >>),
     Created(McpAS), Call("addScopes", {}, << >>),
     Created(Agent0App),
     Created(Todo0App),
     Call("generateRSAKeyPair", {}, << >>),
     Call("registerAgent", {}, << >>),
     \* pollOperation gives up after its timeout while the registration it
     \* polls may still complete
     [call |-> "pollOperation", creates |-> {AgentIdentity},
      update |-> [agentIdentityIds |-> <<AgentIdentity.id>>],
      leftover |-> {{}, {AgentIdentity}}],
     Call("setAgentOwners", {}, [agentOwnerSetupMethod |-> method]),
     Call("uploadPublicKey", {}, << >>),
     Call("activateAgent", {}, << >>),
     Call("pollOperation", {}, << >>),
     Call("getOrgMetadata", {}, << >>),
     Call("createConnection", {AgentConnection},
          [agentConnections |->
             <<[agentId |-> AgentIdentity.id, connectionId |-> AgentConnection.id]>>]),
     Created(Agent0ApiPolicy), Created(Agent0ApiPolicyRule),
     Created(RestApiPolicy), Created(RestApiPolicyRule),
     Created(McpPolicy), Created(McpPolicyRule),
     Call("createTrustedOrigin", {TrustedOrigin("agent0-ui")}, << >>),
     Call("createTrustedOrigin", {TrustedOrigin("todo0-rest-api")}, << >>),
     Call("createTrustedOrigin", {TrustedOrigin("todo0-mcp-server")},
          [trustedOriginNames |-> <<"agent0-ui", "todo0-rest-api", "todo0-mcp-server">>]),
     Call("writeEnvFile", {}, << >>) >>

NoBoot == [pc |-> 0, status |-> "idle", method |-> "", saved |-> FALSE]
NoRoll ==
  [pc |-> 0, status |-> "idle", state |-> << >>, calls |-> << >>, thrown |-> 0]

ScriptsInit ==
  /\ rollbackState = createEmptyState("")
  /\ okta = {}
  /\ boot = NoBoot
  /\ roll = NoRoll
  /\ merge = NoMerge

ScriptFrame ==
  UNCHANGED <<serverVars, exchangeVars, agentVars, loginVars, toggleVars, merge>>

\* bootstrap up to its try block: the prompts are answered and confirmed, no
\* state file exists, loadRollbackState gives the empty state.
BootstrapStart ==
  \E method \in OwnerSetupMethods :
    /\ boot.status = "idle"
    /\ boot' = [boot EXCEPT !.pc = 1, !.status = "running", !.method = method]
    /\ rollbackState' = createEmptyState(OktaDomain)
    /\ UNCHANGED <<okta, roll>>
    /\ ScriptFrame

\* The next awaited call returns, and the statements up to the following
\* await run.
BootstrapStepOk ==
  LET steps == BootstrapSteps(boot.method)
      step == steps[boot.pc] IN
  /\ boot.status = "running"
  /\ okta' = okta \cup step.creates
  /\ rollbackState' = IF step.update = << >> THEN rollbackState
                      ELSE updateRollbackState(rollbackState, step.update)
  /\ boot' = [boot EXCEPT !.pc = IF boot.pc = Len(steps) THEN boot.pc ELSE boot.pc + 1,
                          !.status = IF boot.pc = Len(steps) THEN "done" ELSE "running",
                          !.saved = boot.saved \/ step.update # << >>]
  /\ UNCHANGED roll
  /\ ScriptFrame

\* The next awaited call throws: the catch block reports and the process exits.
BootstrapStepFails ==
  /\ boot.status = "running"
  /\ \E left \in BootstrapSteps(boot.method)[boot.pc].leftover :
    /\ okta' = okta \cup left
    /\ boot' = [boot EXCEPT !.status = "failed"]
    /\ UNCHANGED <<rollbackState, roll>>
    /\ ScriptFrame

\* ------------------------------------------------- tenant scripts: rollback

MaxThrown == 2   \* calls of one rollback run that throw

\* What the state file may hold besides this run's records: arrays that
\* bootstrap's state manager does not write and rollback reads.
OtherRecords ==
  {<< >>,
   [agent0AppUserIds |-> <<"user-1">>, todo0AppUserIds |-> <<"user-2">>],
   [agent0ApiAuthServerIds |-> <<Agent0ApiAS.id>>,
    agent0ApiPolicyIds |-> <<Agent0ApiPolicy.id>>,
    agent0ApiPolicyRuleIds |-> <<Agent0ApiPolicyRule.id>>]}
WithRecords(state, other) ==
  [f \in DOMAIN state \cup DOMAIN other |->
     IF f \in DOMAIN other THEN other[f] ELSE state[f]]

\* One call of rollback's plan; when it throws, the rest of its try block (the
\* next skip calls) is skipped.
Item(op, id, skip) == [op |-> op, id |-> id, skip |-> skip]
Items(op, ids) == [k \in 1..Len(ids) |-> Item(op, ids[k], 0)]
RECURSIVE Flatten(_)
Flatten(ss) == IF ss = << >> THEN << >> ELSE Head(ss) \o Flatten(Tail(ss))

\* Steps 1 and 2: the rules, then the policies, of one authorization server;
\* without a recorded server (or policy) id they are skipped.
RuleItems(state, asField, policyField, ruleField) ==
  IF Opt(state, asField) # << >> /\ Opt(state, policyField) # << >>
  THEN Items("deletePolicyRule", Opt(state, ruleField)) ELSE << >>
PolicyItems(state, asField, policyField) ==
  IF Opt(state, asField) # << >>
  THEN Items("deletePolicy", Opt(state, policyField)) ELSE << >>
\* Step 4: each agent is deactivated, then deleted, in one try block.
AgentItems(ids) ==
  Flatten([k \in 1..Len(ids) |->
    << Item("deactivateAgent", ids[k], 3), Item("pollDeactivation", ids[k], 2),
       Item("deleteAgent", ids[k], 1), Item("pollDeletion", ids[k], 0) >>])

\* Mutant: the authorization servers are deleted first.
RollbackPlan_ServersFirst(state) ==
  Items("deleteAuthorizationServer", Opt(state, "mcpAuthServerIds"))
    \o PolicyItems(state, "mcpAuthServerIds", "mcpPolicyIds")
    \o RuleItems(state, "mcpAuthServerIds", "mcpPolicyIds", "mcpPolicyRuleIds")
    \o Items("deleteApplication", Opt(state, "agent0AppIds"))
    \o AgentItems(Opt(state, "agentIdentityIds"))

\* The calls of rollback's try block for a state file, in the order of the
\* source.
RollbackPlan(state) ==
  RuleItems(state, "agent0ApiAuthServerIds", "agent0ApiPolicyIds",
            "agent0ApiPolicyRuleIds")
    \o RuleItems(state, "restApiAuthServerIds", "restApiPolicyIds",
                 "restApiPolicyRuleIds")
    \o RuleItems(state, "mcpAuthServerIds", "mcpPolicyIds", "mcpPolicyRuleIds")
    \o PolicyItems(state, "agent0ApiAuthServerIds", "agent0ApiPolicyIds")
    \o PolicyItems(state, "restApiAuthServerIds", "restApiPolicyIds")
    \o PolicyItems(state, "mcpAuthServerIds", "mcpPolicyIds")
    \o (IF OptStr(state, "agentOwnerSetupMethod") # ""
           /\ Opt(state, "agentIdentityIds") # << >>
        THEN <<Item("removeAgentOwners", state.agentOwnerSetupMethod, 0)>>
        ELSE << >>)
    \o [k \in 1..Len(Opt(state, "agentConnections")) |->
          Item("deleteConnection", state.agentConnections[k].connectionId, 0)]
    \o AgentItems(Opt(state, "agentIdentityIds"))
    \o (IF Opt(state, "agent0AppIds") # << >>
        THEN Items("unassignUserFromApplication", Opt(state, "agent0AppUserIds"))
        ELSE << >>)
    \o (IF Opt(state, "todo0AppIds") # << >>
        THEN Items("unassignUserFromApplication", Opt(state, "todo0AppUserIds"))
        ELSE << >>)
    \o Items("deleteApplication", Opt(state, "agent0AppIds"))
    \o Items("deleteApplication", Opt(state, "todo0AppIds"))
    \o Items("deleteAuthorizationServer", Opt(state, "agent0ApiAuthServerIds"))
    \o Items("deleteAuthorizationServer", Opt(state, "restApiAuthServerIds"))
    \o Items("deleteAuthorizationServer", Opt(state, "mcpAuthServerIds"))
    \o Items("deleteTrustedOriginByName", Opt(state, "trustedOriginNames"))

\* The calls that remove a resource when they succeed.
Removes(item) ==
  IF item.op \in {"deletePolicyRule", "deletePolicy", "deleteConnection",
                  "pollDeletion", "deleteApplication",
                  "deleteAuthorizationServer", "deleteTrustedOriginByName"}
  THEN {r \in okta : r.id = item.id} ELSE {}

\* rollback after bootstrap has ended: the state file is loaded and the
\* prompts are confirmed.
RollbackStart ==
  \E other \in OtherRecords :
    /\ boot.status \in {"failed", "done"} /\ boot.saved
    /\ roll.status = "idle"
    /\ roll' = [roll EXCEPT !.pc = 1, !.status = "running",
                            !.state = WithRecords(rollbackState, other)]
    /\ UNCHANGED <<rollbackState, okta, boot>>
    /\ ScriptFrame

\* The next call of the plan returns or throws; rollback counts the error and
\* goes on after the call's try block.
RollbackCall ==
  \E ok \in BOOLEAN :
    LET plan == RollbackPlan(roll.state)
        item == plan[roll.pc] IN
    /\ roll.status = "running" /\ roll.pc <= Len(plan)
    /\ ~ok => roll.thrown < MaxThrown
    /\ okta' = IF ok THEN okta \ Removes(item) ELSE okta
    /\ roll' = [roll EXCEPT
         !.pc = IF ok THEN roll.pc + 1 ELSE roll.pc + 1 + item.skip,
         !.calls = Append(roll.calls, [op |-> item.op, id |-> item.id, ok |-> ok]),
         !.thrown = IF ok THEN roll.thrown ELSE roll.thrown + 1]
    /\ UNCHANGED <<rollbackState, boot>>
    /\ ScriptFrame

\* After the last call: deleteRollbackState().
RollbackFinish ==
  /\ roll.status = "running" /\ roll.pc > Len(RollbackPlan(roll.state))
  /\ roll' = [roll EXCEPT !.status = "done"]
  /\ rollbackState' = createEmptyState("")
  /\ UNCHANGED <<okta, boot>>
  /\ ScriptFrame

ScriptsNext ==
  \/ BootstrapStart
  \/ BootstrapStepOk
  \/ BootstrapStepFails
  \/ RollbackStart
  \/ RollbackCall
  \/ RollbackFinish

RegistryNext ==
  \/ GateReject(RegistryHeaders, MaxSessions)
  \/ GateAdmit(RegistryHeaders, RegistryBodies, MaxSessions, MaxInFlight)
  \/ AbortSse
  \/ SseHandler
  \/ CloseConnection
  \/ MessagesHandler

GateNext ==
  \/ GateReject(AllHeaders, OpsSessions)
  \/ GateAdmit(AllHeaders, RegistryBodies, OpsSessions, OpsInFlight)
  \/ AbortSse
  \/ SseHandler
  \/ CloseConnection
  \/ MessagesHandler

OpsNext ==
  \/ GateReject(OpsHeaders, OpsSessions)
  \/ GateAdmit(OpsHeaders, ToolBodies, OpsSessions, OpsInFlight)
  \/ AbortSse
  \/ SseHandler
  \/ CloseConnection
  \/ MessagesHandler
  \/ ExecTool

\* Tool calls of two sessions with two requests in flight.
ConcurrentBodies ==
  {Ping, [tool |-> "create-todo", id |-> 0], [tool |-> "toggle-todo", id |-> 1]}

\* One caller, with a good token or without a header.
ConcurrentHeaders ==
  {NoHeader, [scheme |-> "Bearer", cred |-> GoodToken("u1", Scopes)]}

ConcurrentNext ==
  \/ GateReject(ConcurrentHeaders, MaxSessions)
  \/ GateAdmit(ConcurrentHeaders, ConcurrentBodies, MaxSessions, MaxInFlight)
  \/ AbortSse
  \/ SseHandler
  \/ CloseConnection
  \/ MessagesHandler
  \/ ExecTool

\* The server's steps while its process runs, and the signal that ends it.
ShutdownNext ==
  \/ Todo0Mcp \notin exited /\ GateReject(RegistryHeaders, MaxSessions)
  \/ Todo0Mcp \notin exited
       /\ GateAdmit(RegistryHeaders, RegistryBodies, MaxSessions, OpsInFlight)
  \/ Todo0Mcp \notin exited /\ AbortSse
  \/ Todo0Mcp \notin exited /\ SseHandler
  \/ Todo0Mcp \notin exited /\ CloseConnection
  \/ Todo0Mcp \notin exited /\ MessagesHandler
  \/ Todo0Signal

vars == <<serverVars, exchangeVars, agentVars, scriptVars, loginVars, toggleVars>>

Init ==
  /\ ServerInit /\ ExchangeIdle /\ AgentInit /\ ScriptsInit /\ LoginInit
  /\ ToggleInit
InitExchange ==
  /\ ServerInit /\ ExchangeInit /\ AgentInit /\ ScriptsInit /\ LoginInit
  /\ ToggleInit
InitMerge ==
  /\ ServerInit /\ ExchangeIdle /\ AgentInit /\ LoginInit /\ ToggleInit
  /\ rollbackState = createEmptyState("")
  /\ okta = {}
  /\ boot = NoBoot
  /\ roll = NoRoll
  /\ merge \in [pc : {"input"}, cur : MergeStates, upd : MergeUpdates,
                 once : {createEmptyState("")}, twice : {createEmptyState("")}]
SpecAgent == Init /\ [][AgentNext]_vars
SpecShutdown == Init /\ [][ShutdownNext]_vars
SpecToggle == Init /\ [][ToggleNext]_vars
SpecLogin == Init /\ [][LoginNext]_vars
SpecScripts == Init /\ [][ScriptsNext]_vars
SpecMerge == InitMerge /\ [][MergeNext]_vars
SpecConcurrent == Init /\ [][ConcurrentNext]_vars
SpecRegistry == Init /\ [][RegistryNext]_vars
SpecGate == Init /\ [][GateNext]_vars
SpecOps == Init /\ [][OpsNext]_vars
SpecExchange == InitExchange /\ [][ExchangeNext]_vars
Spec == SpecRegistry

\* ------------------------------------------------------------------ claims

\* The step is the /messages handler of the request in slot i.
HandlesMessage(i) ==
  /\ pending[i].op = "messages" /\ pending[i].stage = "handler"
  /\ pending'[i] # pending[i]

\* C1: a request on a live session whose verified subject differs from the
\* subject the session was created with is answered 403, is not handed to the
\* session's transport, and leaves both registry entries of the session as
\* they were.
C1_SubjectMismatchRejected ==
  [][\A i \in Slots :
       (/\ HandlesMessage(i)
        /\ pending[i].sid \in DOMAIN transports
        /\ pending[i].sid \in DOMAIN sessionAuth
        /\ sessionAuth[pending[i].sid].sub # pending[i].claims.sub)
       => /\ ev'.status = 403 /\ ev'.error = "Forbidden" /\ ev'.routed = 0
          /\ pending'[i] = NoReq
          /\ transports' = transports /\ sessionAuth' = sessionAuth]_vars

C1_Witness ==
  /\ ev.op = "messages" /\ ev.stage = "handler" /\ ev.status = 403
  /\ ev.sid \in DOMAIN transports /\ ev.sid \in DOMAIN sessionAuth
  /\ sessionAuth[ev.sid].sub # ev.sub /\ ev.sub \in Subjects

\* C2: the subject bound to a session is written by the step that creates the
\* session, as the creating request's verified subject, and no step changes it
\* while the session stays registered.
C2_BoundSubjectImmutable ==
  [][/\ \A s \in DOMAIN sessionAuth \cap DOMAIN sessionAuth' :
          sessionAuth'[s] = sessionAuth[s]
     /\ \A s \in DOMAIN sessionAuth' \ DOMAIN sessionAuth :
          /\ ev'.op = "sse" /\ ev'.stage = "handler" /\ ev'.sid = s
          /\ sessionAuth'[s].sub = ev'.sub]_vars

C2_Witness ==
  /\ ev.op = "messages" /\ ev.stage = "handler" /\ ev.status = 202
  /\ ev.sid \in DOMAIN sessionAuth /\ sessionAuth[ev.sid].sub = ev.sub
  /\ \E i \in Used : pending[i].sid = ev.sid /\ pending[i].claims.sub # ev.sub

\* C4: a Bearer token whose audience is not the gate's expected audience is
\* answered 401 by the gate and never reaches a handler, also when its
\* signature, issuer and expiry are in order.
C4_WrongAudienceRejected ==
  /\ (ev.stage = "gate" /\ "aud" \in ev.defects /\ "scheme" \notin ev.defects)
       => ev.status = 401 /\ ev.error = "Unauthorized" /\ ev.routed = 0
  /\ "aud" \notin ev.defects \/ ev.stage = "gate"
  /\ \A i \in Used : "aud" \notin pending[i].defects

C4_Witness ==
  ev.stage = "gate" /\ ev.defects = {"aud"} /\ ev.status = 401

\* C5: a handler (and so a transport or a tool) runs only for a request whose
\* own header passed the gate; a request with a missing, malformed, invalid or
\* expired token is answered by the gate with an error status and error body,
\* also when it names a session that a valid token created.
C5_GateOnEveryCall ==
  /\ \A i \in Used : pending[i].defects = {} /\ pending[i].claims.sub \in Subjects
  /\ ev.stage \in {"handler", "tool"} => ev.defects = {} /\ ev.sub \in Subjects
  /\ (ev.stage = "gate" /\ ev.defects # {})
       => ev.status \in {401, 403} /\ ev.error # "" /\ ev.routed = 0

C5_Witness ==
  /\ ev.stage = "gate" /\ ev.op = "messages" /\ ev.status = 401
  /\ ev.defects = {"expired"}
  /\ ev.sid \in DOMAIN transports /\ ev.sid \in started

\* C7: the gate answers 401 for a header without the Bearer scheme or with a
\* token that fails verification, 403 for a verified token without the required
\* scope, and never 403 for a token that failed verification.
VerificationDefects == {"malformed", "sig", "iss", "aud", "expired"}
C7_GateOrder ==
  ev.stage = "gate" =>
    /\ ev.defects \cap {"scheme", "empty"} # {} => ev.status = 401
    /\ ev.defects \cap VerificationDefects # {} => ev.status = 401
    /\ ev.defects = {"scp"} => ev.status = 403 /\ ev.error = "Forbidden"
    /\ ev.status = 403 => ev.defects = {"scp"}
    /\ ev.status = 401 => ev.error = "Unauthorized" /\ ev.defects \ {"scp"} # {}
    /\ ev.status \in {0, 401, 403}
    /\ ev.status = 0 <=> ev.defects = {}

\* A token that fails verification and also lacks the required scope is
\* answered 401.
C7_Witness ==
  /\ ev.stage = "gate" /\ ev.status = 401 /\ "scp" \in ev.defects
  /\ ev.defects \cap VerificationDefects # {}

Posted == {<<c, k>> : c \in Calls, k \in 1..2} 
PostedNow == {p \in Posted : p[2] <= Len(calls[p[1]].reqs)}
Req(p) == calls[p[1]].reqs[p[2]]

\* C3: in every exchange the hop-2 request is posted only after the hop-1
\* request was posted and answered successfully; after a failed hop 1 there is
\* no hop-2 request.
C3_Hop1BeforeHop2 ==
  \A c \in Calls :
    /\ \A k \in 1..Len(calls[c].reqs) :
         calls[c].reqs[k].hop = 2 =>
           /\ k = 2 /\ calls[c].reqs[1].hop = 1
           /\ calls[c].r1 = "ok"
           /\ calls[c].reqs[k].token = calls[c].idJag /\ calls[c].idJag # ""
    /\ calls[c].r1 \in {"provider", "network"} =>
         /\ Len(calls[c].reqs) = 1 /\ calls[c].reqs[1].hop = 1
         /\ calls[c].pc = "done"
    /\ calls[c].reqs # << >> => calls[c].reqs[1].hop = 1
    /\ Len(calls[c].reqs) <= 2

C3_Witness ==
  \E c, d \in Calls :
    /\ calls[c].r1 = "ok" /\ Len(calls[c].reqs) = 2 /\ calls[c].reqs[2].hop = 2
    /\ calls[d].r1 = "provider" /\ calls[d].pc = "done"

\* C6: a mutating tool called with a token without mcp:tools:manage, on a
\* session whose token has none either, is answered with an authorization
\* rejection and does not change the todo table.
C6_ScopePerOperation ==
  (/\ ev.stage = "tool" /\ ev.tool \in MutatingTools
   /\ "mcp:tools:manage" \notin ev.scp /\ "mcp:tools:manage" \notin ev.sscp)
    => ev.error = "Forbidden" /\ ~ev.changed

\* C9: any two client assertions signed, in one call or in two, carry
\* different jti values.
C9_UniqueJti ==
  \A p, q \in PostedNow : p # q => Req(p).ca.jti # Req(q).ca.jti

\* C10 as stated: every request carries an assertion signed in the step that
\* posts it, no assertion is in two requests, its audience is the endpoint the
\* request goes to, and the hop-2 assertion is not the hop-1 assertion and
\* does not carry the hop-1 endpoint as its audience.
PostsFresh ==
  [][\A c \in Calls :
       Len(calls'[c].reqs) > Len(calls[c].reqs) =>
         /\ Len(calls'[c].reqs) = Len(calls[c].reqs) + 1
         /\ calls'[c].reqs[Len(calls'[c].reqs)].ca.mint = mintCount + 1
         /\ mintCount' = mintCount + 1]_vars
AssertionPerRequest ==
  /\ \A p, q \in PostedNow : p # q => Req(p).ca.mint # Req(q).ca.mint
  /\ \A p \in PostedNow :
       /\ Req(p).ca.aud = Req(p).endpoint
       /\ Req(p).ca.mint \in 1..mintCount
       /\ Req(p).ca.iss = ClientId /\ Req(p).ca.sub = ClientId
  /\ \A c \in Calls : Len(calls[c].reqs) = 2 =>
       [calls[c].reqs[2].ca EXCEPT !.mint = 0] # [calls[c].reqs[1].ca EXCEPT !.mint = 0]
Hop2AudienceNotHop1 ==
  \A c \in Calls : Len(calls[c].reqs) = 2 =>
    calls[c].reqs[2].ca.aud # calls[c].reqs[1].endpoint
C10_AsStated ==
  PostsFresh /\ [](AssertionPerRequest /\ Hop2AudienceNotHop1)

\* C10 as amended: the same, where the hop-2 assertion differs from the hop-1
\* assertion and from its audience whenever the resource token endpoint in
\* use is not the org token endpoint of hop 1.
AssertionPerRequestAmended ==
  /\ \A p, q \in PostedNow : p # q => Req(p).ca.mint # Req(q).ca.mint
  /\ \A p \in PostedNow :
       /\ Req(p).ca.aud = Req(p).endpoint
       /\ Req(p).ca.mint \in 1..mintCount
       /\ Req(p).ca.iss = ClientId /\ Req(p).ca.sub = ClientId
  /\ \A c \in Calls :
       (Len(calls[c].reqs) = 2 /\ resourceTokenEndpoint # OrgTokenEndpoint) =>
         /\ [calls[c].reqs[2].ca EXCEPT !.mint = 0] # [calls[c].reqs[1].ca EXCEPT !.mint = 0]
         /\ calls[c].reqs[2].ca.aud # calls[c].reqs[1].endpoint
C10_AudienceIsEndpoint ==
  PostsFresh /\ []AssertionPerRequestAmended

C10_Witness ==
  \E c \in Calls :
    /\ Len(calls[c].reqs) = 2 /\ resourceTokenEndpoint = McpTokenEndpoint
    /\ calls[c].reqs[2].ca.aud = McpTokenEndpoint
    /\ calls[c].reqs[1].ca.aud = OrgTokenEndpoint
    /\ calls[c].reqs[2].ca.jti = calls[c].reqs[1].ca.jti

\* C11: a call whose hop 1 failed answers a failure (500, success false) whose
\* details are the error the org token endpoint answered with, and its response
\* holds neither an ID-JAG nor an access token.
C11_Hop1FailureReported ==
  \A c \in Calls :
    (calls[c].pc = "done" /\ calls[c].r1 \in {"provider", "network"}) =>
      /\ calls[c].res.status = 500 /\ ~calls[c].res.success
      /\ calls[c].res.error = "Token exchange request failed"
      /\ calls[c].res.details = calls[c].e1 /\ calls[c].e1 # ""
      /\ calls[c].r1 = "provider" => calls[c].e1 \in ProviderErrors
      /\ calls[c].res.id_jag = "" /\ calls[c].res.access_token = ""

C11_Witness ==
  \E c \in Calls :
    /\ calls[c].pc = "done" /\ calls[c].r1 = "provider"
    /\ calls[c].e1 = "invalid_client" /\ calls[c].res.details = "invalid_client"

\* C12: a call whose hop 1 succeeded and whose hop 2 failed answers a failure,
\* not a success, that carries the error the resource token endpoint answered
\* with and that differs from the answer to every hop-1 failure.
C12_Hop2FailureReported ==
  \A c \in Calls :
    (calls[c].pc = "done" /\ calls[c].r1 = "ok"
       /\ calls[c].r2 \in {"provider", "network"}) =>
      /\ ~calls[c].res.success /\ calls[c].res.status # 200
      /\ calls[c].e2 \in {calls[c].res.error, calls[c].res.details}
      /\ \A d \in Calls :
           (calls[d].pc = "done" /\ calls[d].r1 \in {"provider", "network"}) =>
             calls[d].res # calls[c].res

\* C13: the ID-JAG of hop 1 appears only as the assertion of the hop-2
\* request: it is not logged and is not in the response, whether hop 2
\* succeeded or failed.
C13_IdJagOnlyInHop2 ==
  \A c \in Calls :
    calls[c].idJag # "" =>
      /\ calls[c].idJag \notin calls[c].logged
      /\ calls[c].res.id_jag = ""
      /\ \A k \in 1..Len(calls[c].reqs) :
           calls[c].reqs[k].token = calls[c].idJag => calls[c].reqs[k].hop = 2

\* C14: with no private key loaded, a call ends in its first step with the
\* key-unavailable answer (or, without an ID token in the session, with the
\* 401 that precedes the key check), no client assertion is signed and no
\* request is posted; no step changes the key.
KeyUnavailableAnswer(c) ==
  /\ calls[c].reqs = << >> /\ calls[c].pc \in {"idle", "done"}
  /\ calls[c].pc = "done" =>
       /\ ~calls[c].res.success
       /\ calls[c].res.id_jag = "" /\ calls[c].res.access_token = ""
       /\ IF calls[c].idToken # ""
          THEN calls[c].res.status = 500 /\ calls[c].res.error = KeyNotLoaded
          ELSE calls[c].res.status = 401
C14_KeyUnavailableFatal ==
  /\ [][privateKey' = privateKey]_vars
  /\ [](privateKey = "null" => mintCount = 0 /\ \A c \in Calls : KeyUnavailableAnswer(c))

C14_Witness ==
  /\ privateKey = "null"
  /\ \A c \in Calls :
       /\ calls[c].pc = "done" /\ calls[c].idToken # ""
       /\ calls[c].res.error = KeyNotLoaded

\* C15: every tool call the agent sends carries an access token whose
\* expires_in lifetime has not elapsed at the time of the call.
C15_NoExpiredTokenPresented ==
  agev.op = "callTool" => agev.at < agev.token.exp

\* C16: an Agent holds an ID token only while the browser session that
\* obtained it holds it, and every token exchange presents the ID token of the
\* subject's current session.
C16_IdTokenSessionBound ==
  /\ \A u \in Subjects :
       subjectToAgent[u].present => subjectToAgent[u].idToken = session[u]
  /\ agev.op = "exchange" => agev.idToken = session[agev.sub]

\* C17: when a process has exited, no session is registered and no session's
\* connection is open: the MCP server's two maps are empty and every SSE
\* connection is closed, and the agent process has closed every agent's
\* transport and cleared its map.
C17_ShutdownClosesSessions ==
  /\ Todo0Mcp \in exited =>
       /\ transports = << >> /\ sessionAuth = << >>
       /\ \A sid \in DOMAIN conn : conn[sid] # "open"
  /\ Agent0 \in exited =>
       /\ \A u \in Subjects : ~subjectToAgent[u].present
       /\ agev.op = "exit" => agev.sub = "all-closed"

\* C18: every entry of the two registry maps belongs to a session whose SSE
\* connection has not closed, and the step in which a connection closes
\* removes the session from both maps.
C18_RegistryEntriesLive ==
  \A sid \in DOMAIN transports \cup DOMAIN sessionAuth :
    sid \in DOMAIN conn /\ conn[sid] = "open"

\* C19: of the requests the /messages handler has handed to a transport and
\* whose handling has not finished, no two are on the same session.
C19_OneRequestPerTransport ==
  \A i, j \in Used :
    (i # j /\ pending[i].stage = "tool" /\ pending[j].stage = "tool")
      => pending[i].sid # pending[j].sid

\* C20: a tool handler answers with a structured result; when the todo
\* operation threw, the result is an error of kind 'Internal Server Error', and
\* a 'Not Found' error is answered exactly when the operation ran and the
\* target record is missing.
C20_ToolRejectionsDistinct ==
  ev.stage = "tool" =>
    /\ ev.error \in {"", "Not Found", "Internal Server Error"}
    /\ ~ev.dbOk => ev.error = "Internal Server Error"
    /\ ev.error = "Not Found" <=> (ev.dbOk /\ ev.missing)

\* String(req.query.sessionId) of a request without the query parameter: the
\* text "undefined", which is no transport's sessionId.
NoSessionId == 0

\* C21: a POST /messages request without a session id that passed the gate is
\* answered 400 'Invalid session': it is handed to no transport, reaches no
\* tool, and leaves the registry as it was.
C21_NoSessionIdRejected ==
  [][\A i \in Slots :
       (HandlesMessage(i) /\ pending[i].sid = NoSessionId)
       => /\ ev'.status = 400 /\ ev'.error = "Invalid session" /\ ev'.routed = 0
          /\ pending'[i] = NoReq
          /\ transports' = transports /\ sessionAuth' = sessionAuth]_vars

C21_Witness ==
  /\ ev.op = "messages" /\ ev.stage = "handler" /\ ev.sid = NoSessionId
  /\ ev.status = 400
  /\ \E s \in DOMAIN transports :
       s \in started /\ s \in DOMAIN sessionAuth /\ sessionAuth[s].sub = ev.sub


\* The state file names resource r where rollback looks for it.
Recorded(state, r) ==
  IF r.field = "agentConnections"
  THEN \E k \in 1..Len(state.agentConnections) :
         state.agentConnections[k].connectionId = r.id
  ELSE r.id \in Range(Opt(state, r.field))

\* C22: while bootstrap runs, and when it has failed, every resource of the
\* run that exists in the tenant is recorded in the rollback state.
C22_CreatedIsRecorded ==
  (boot.status \in {"running", "failed"} /\ roll.status = "idle")
    => \A r \in okta : Recorded(rollbackState, r)

\* The ids of merge as the claim compares them: the id strings of an array,
\* the connectionIds of the connections.
ConnectionIds(s) == [k \in 1..Len(s) |-> s[k].connectionId]
MergedArrays(state, upd) ==
  {<<state[f], Opt(upd, f)>> : f \in StringArrayFields}
    \cup {<<ConnectionIds(state.agentConnections),
            ConnectionIds(Opt(upd, "agentConnections"))>>}
KeepsAndAppends(cur, new, out) ==
  /\ Len(out) >= Len(cur) /\ SubSeq(out, 1, Len(cur)) = cur
  /\ \A k \in (Len(cur) + 1)..Len(out) :
       out[k] \notin Range(cur) /\ out[k] \in Range(new)
  /\ NoDuplicates(out)

\* C23: updateRollbackState applied to a state without duplicates keeps each
\* array as a prefix of the result, appends only ids of the update that the
\* array did not hold, produces no duplicate (connections by connectionId),
\* and applied again with the same update returns the same state.
C23_MergeKeepsAppendsOnce ==
  /\ merge.pc \in {"once", "twice"} =>
       /\ \A f \in StringArrayFields :
            KeepsAndAppends(merge.cur[f], Opt(merge.upd, f), merge.once[f])
       /\ KeepsAndAppends(ConnectionIds(merge.cur.agentConnections),
                          ConnectionIds(Opt(merge.upd, "agentConnections")),
                          ConnectionIds(merge.once.agentConnections))
       /\ SubSeq(merge.once.agentConnections, 1, Len(merge.cur.agentConnections))
            = merge.cur.agentConnections
  /\ merge.pc = "twice" => merge.twice = merge.once

C23_Witness ==
  /\ merge.pc = "twice"
  /\ Len(merge.once.mcpAuthServerIds) > Len(merge.cur.mcpAuthServerIds)
  /\ Range(Opt(merge.upd, "mcpAuthServerIds")) \cap Range(merge.cur.mcpAuthServerIds) # {}
  /\ ~NoDuplicateConnections(Opt(merge.upd, "agentConnections"))
  /\ Len(merge.once.agentConnections) > Len(merge.cur.agentConnections)
  /\ merge.cur.agentConnections # << >>

\* In rollback's calls so far, every call of ops a precedes every call of
\* ops b.
AllBefore(a, b) ==
  \A i, j \in 1..Len(roll.calls) :
    (roll.calls[i].op \in a /\ roll.calls[j].op \in b) => i < j

\* C24: rollback calls the deletions in reverse dependency order: policy rules
\* before policies, policies before authorization servers, agent connections
\* before agents, an agent's deletion directly after its deactivation and the
\* completed poll of it, agents and user assignments before applications,
\* applications before authorization servers.
C24_ReverseDependencyOrder ==
  /\ AllBefore({"deletePolicyRule"}, {"deletePolicy"})
  /\ AllBefore({"deletePolicy"}, {"deleteAuthorizationServer"})
  /\ AllBefore({"deleteConnection"}, {"deactivateAgent", "deleteAgent"})
  /\ \A j \in 1..Len(roll.calls) :
       roll.calls[j].op = "deleteAgent" =>
         /\ j > 2
         /\ roll.calls[j - 2] =
              [op |-> "deactivateAgent", id |-> roll.calls[j].id, ok |-> TRUE]
         /\ roll.calls[j - 1] =
              [op |-> "pollDeactivation", id |-> roll.calls[j].id, ok |-> TRUE]
  /\ AllBefore({"deleteAgent", "pollDeletion", "unassignUserFromApplication"},
               {"deleteApplication"})
  /\ AllBefore({"deleteApplication"}, {"deleteAuthorizationServer"})

C24_Witness ==
  /\ roll.status = "done" /\ roll.thrown > 0
  /\ \A op \in {"deletePolicyRule", "deletePolicy", "deleteConnection",
                "deleteAgent", "unassignUserFromApplication",
                "deleteApplication", "deleteAuthorizationServer"} :
       \E k \in 1..Len(roll.calls) : roll.calls[k].op = op
  /\ \E k \in 1..Len(roll.calls) :
       roll.calls[k].op = "deletePolicyRule" /\ ~roll.calls[k].ok


\* C25: the two registry maps hold the same set of session ids in every state:
\* a session id has a transport exactly if it has a bound subject.
C25_MapsSameKeys ==
  DOMAIN transports = DOMAIN sessionAuth

C25_Witness ==
  /\ ev.op = "close" /\ ev.sid \notin DOMAIN transports
  /\ DOMAIN transports # {}
  /\ \E i \in Used : pending[i].op = "messages" /\ pending[i].sid = ev.sid


\* C26: a subject that has an Agent in the cache keeps that Agent until the
\* process exits: a step creates an Agent, and starts its token exchange,
\* only for a subject without one, and an Agent's connect goes from the
\* exchange to the transport connect at most once.
C26_OneAgentPerSubject ==
  [][\A u \in Subjects :
       LET a == subjectToAgent[u]
           b == subjectToAgent'[u] IN
       /\ (agev'.op = "getAgent" /\ agev'.sub = u /\ agev'.created) => ~a.present
       /\ (b.pc = "exchanging" /\ a.pc # "exchanging")
            => (~a.present /\ agev'.op = "getAgent" /\ agev'.sub = u)
       /\ (b.pc = "connecting" /\ a.pc # "connecting") => a.pc = "exchanging"
       /\ (a.present /\ ~b.present) => Agent0 \in exited'
       /\ Agent0 \in exited => ~b.present]_vars

C26_Witness ==
  /\ agev.op = "getAgent" /\ agev.returned /\ ~agev.created
  /\ subjectToAgent[agev.sub].pc = "exchanging"

\* C27: an Agent that getAgentForSession returns to its caller is connected.
C27_ReturnedAgentConnected ==
  agev.returned => subjectToAgent[agev.sub].isConnected

\* C28: an agent has a transport only with the access token of an exchange
\* that reported success, made with the agent's ID token; isConnected holds
\* only for an agent whose transport was connected, and an agent whose
\* exchange or transport connect failed is not connected.
C28_ConnectAfterExchange ==
  /\ \A u \in Subjects :
       LET a == subjectToAgent[u] IN
       /\ a.transport # "null" => (a.token # NoToken /\ a.token.from = a.idToken)
       /\ a.isConnected => (a.pc = "ready" /\ a.transport = "open")
       /\ a.pc \in {"exchanging", "failed"} => ~a.isConnected
  /\ (agev.op = "exchange" /\ subjectToAgent[agev.sub].transport # "null")
       => subjectToAgent[agev.sub].token = agev.token
  /\ agev.op = "callTool" => agev.token = subjectToAgent[agev.sub].token

C28_Witness ==
  /\ agev.op = "connect" /\ ~agev.returned
  /\ subjectToAgent[agev.sub].pc = "failed"
  /\ subjectToAgent[agev.sub].transport = "open"
  /\ \E u \in Subjects :
       subjectToAgent[u].pc = "failed" /\ subjectToAgent[u].transport = "null"



\* C29: a browser session's idToken is set only by a callback that read
\* stored PKCE parameters of an earlier /login of the same session and whose
\* code exchange returned both an ID token and an access token, and that
\* callback clears the PKCE parameters; a callback that finds no PKCE
\* parameters or whose exchange fails leaves the session's tokens as they
\* were; a route behind requireAuth is passed only while idToken is set.
C29_IdTokenSetByCallback ==
  [][\A u \in Subjects :
       /\ (session'[u] # 0 /\ session'[u] # session[u]) =>
            /\ authev'.op = "callback" /\ authev'.sub = u
            /\ callbacks[u].pc = "awaiting"
            /\ callbacks[u].pkce \in 1..logins
            /\ authev'.tokens = "both"
            /\ pkce'[u] = 0
       /\ (authev'.op = "callback" /\ authev'.sub = u /\ ~authev'.set) =>
            session'[u] = session[u]
       /\ (authev'.op = "callback" /\ authev'.sub = u /\ authev'.set) =>
            (session'[u] # 0 /\ pkce'[u] = 0)
       /\ (authev'.op = "callback" /\ authev'.sub = u /\ pkce[u] = 0
             /\ callbacks[u].pc = "idle") =>
            (authev'.answer # "awaiting" /\ callbacks'[u].pc = "idle")
       /\ (authev'.op = "route" /\ authev'.sub = u /\ authev'.answer = "next") =>
            session[u] # 0
       /\ (authev'.op = "route" /\ authev'.sub = u /\ authev'.answer = "401") =>
            session[u] = 0]_vars

C29_Witness ==
  /\ authev.op = "callback" /\ authev.set /\ authev.tokens = "both"
  /\ authev.pkce # 0
  /\ session[authev.sub] # 0
  /\ pkce[authev.sub] = 0


\* C30: after n toggleTodo calls on a todo have returned the updated row,
\* calls whose read and write steps interleave included, its completed flag
\* is the value it was created with (false) when n is even and the negation
\* when n is odd; a call on a missing id returns null and changes nothing.
C30_ToggleParity ==
  /\ \A id \in DOMAIN todos : todos[id] = (toggled[id] % 2 = 1)
  /\ (togev.op = "toggle" /\ togev.result = "null") => ~togev.changed

====
